---- MODULE Spec2Model ----
(***************************************************************************)
(* Field-extraction engine of the resume parser (src/streamlit_app.py).    *)
(*                                                                         *)
(* Texts are TLA+ strings handled character by character (Len, SubSeq and  *)
(* \o on strings), so that the regular expressions and the substring       *)
(* tests of the source act on the same characters as in the program.      *)
(* A regular expression is a sequence of nodes, matched by a backtracking *)
(* matcher that tries alternatives in order and repetitions greedily, as   *)
(* Python's re module does.                                                *)
(***************************************************************************)
EXTENDS Integers, Sequences, FiniteSets, TLC

VARIABLES text, ents, now, pc, results, prev

vars == <<text, ents, now, pc, results, prev>>

(***************************************************************************)
(* Characters and strings                                                  *)
(***************************************************************************)
Ch(s, i) == SubSeq(s, i, i)

CharsOf(s) == {Ch(s, i) : i \in 1..Len(s)}

UpperStr == "ABCDEFGHIJKLMNOPQRSTUVWXYZ"
LowerStr == "abcdefghijklmnopqrstuvwxyz"
DigitStr == "0123456789"
\* The printable ASCII characters in code-point order (the order of str.__lt__):
\* code points 32 to 95, and 97 to 126.
AsciiLow == " !\"#$%&'()*+,-./0123456789:;<=>?@ABCDEFGHIJKLMNOPQRSTUVWXYZ[\\]^_"
AsciiHigh == "abcdefghijklmnopqrstuvwxyz{|}~"

UpperChars == CharsOf(UpperStr)
LowerChars == CharsOf(LowerStr)
DigitChars == CharsOf(DigitStr)
AlphaChars == UpperChars \cup LowerChars
\* \s of the re module (the vertical tab has no TLA+ escape and is left out).
SpaceChars == {" ", "\t", "\n", "\r", "\f"}
\* \w of the re module, on ASCII text.
WordChars == AlphaChars \cup DigitChars \cup {"_"}

LowerOf == [c \in UpperChars |-> Ch(LowerStr, CHOOSE i \in 1..26 : Ch(UpperStr, i) = c)]

LowerCh(c) == IF c \in UpperChars THEN LowerOf[c] ELSE c

\* str.lower(), by halves to keep the evaluation shallow
RECURSIVE Lower(_)
Lower(s) ==
    IF Len(s) = 0 THEN ""
    ELSE IF Len(s) = 1 THEN LowerCh(s)
    ELSE Lower(SubSeq(s, 1, Len(s) \div 2)) \o Lower(SubSeq(s, Len(s) \div 2 + 1, Len(s)))

\* str[0].isupper()
IsUpper(c) == c \in UpperChars

\* s[i:i+len(p)] == p
StartsAt(s, i, p) == i >= 1 /\ i + Len(p) - 1 <= Len(s) /\ SubSeq(s, i, i + Len(p) - 1) = p

\* p in s
Contains(s, p) == \E i \in 1..(Len(s) - Len(p) + 1) : SubSeq(s, i, i + Len(p) - 1) = p

\* any(p in s for p in ps), ps a sequence of strings
ContainsAny(s, ps) == \E k \in 1..Len(ps) : Contains(s, ps[k])

\* str.strip()
RECURSIVE LStrip(_)
LStrip(s) == IF Len(s) > 0 /\ Ch(s, 1) \in SpaceChars THEN LStrip(SubSeq(s, 2, Len(s))) ELSE s
RECURSIVE RStrip(_)
RStrip(s) == IF Len(s) > 0 /\ Ch(s, Len(s)) \in SpaceChars THEN RStrip(SubSeq(s, 1, Len(s) - 1)) ELSE s
Strip(s) == LStrip(RStrip(s))

\* str.replace(old, new), every occurrence, left to right
RECURSIVE Replace(_, _, _)
Replace(s, old, new) ==
    IF Len(s) = 0 THEN ""
    ELSE IF StartsAt(s, 1, old) THEN new \o Replace(SubSeq(s, Len(old) + 1, Len(s)), old, new)
    ELSE Ch(s, 1) \o Replace(SubSeq(s, 2, Len(s)), old, new)

CodePoint == [c \in CharsOf(AsciiLow) \cup CharsOf(AsciiHigh) \cup SpaceChars |->
                IF c \in CharsOf(AsciiLow)
                THEN 31 + (CHOOSE i \in 1..Len(AsciiLow) : Ch(AsciiLow, i) = c)
                ELSE IF c \in CharsOf(AsciiHigh)
                THEN 96 + (CHOOSE i \in 1..Len(AsciiHigh) : Ch(AsciiHigh, i) = c)
                ELSE IF c = "\t" THEN 9 ELSE IF c = "\n" THEN 10
                ELSE IF c = "\f" THEN 12 ELSE 13]

\* a < b on str: lexicographic by code point
RECURSIVE StrLess(_, _)
StrLess(a, b) ==
    IF Len(b) = 0 THEN FALSE
    ELSE IF Len(a) = 0 THEN TRUE
    ELSE IF Ch(a, 1) = Ch(b, 1) THEN StrLess(SubSeq(a, 2, Len(a)), SubSeq(b, 2, Len(b)))
    ELSE CodePoint[Ch(a, 1)] < CodePoint[Ch(b, 1)]

\* sorted(S) for a set S of strings
RECURSIVE SortedSet(_)
SortedSet(S) ==
    IF S = {} THEN <<>>
    ELSE LET m == CHOOSE x \in S : \A y \in S \ {x} : StrLess(x, y)
         IN <<m>> \o SortedSet(S \ {m})

\* int(s) for a string of decimal digits
RECURSIVE ParseInt(_)
ParseInt(s) ==
    IF Len(s) = 0 THEN 0
    ELSE 10 * ParseInt(SubSeq(s, 1, Len(s) - 1))
         + (CHOOSE d \in 0..9 : Ch(DigitStr, d + 1) = Ch(s, Len(s)))

SeqToSet(q) == {q[i] : i \in 1..Len(q)}

(***************************************************************************)
(* Regular expressions (module re)                                         *)
(***************************************************************************)
Lit(s) == [t |-> "lit", s |-> s]
Cls(c) == [t |-> "cls", c |-> c]
AnyCh == [t |-> "any"]
WB == [t |-> "wb"]
\* a: a sequence of alternatives, each a sequence of nodes
Alt(a) == [t |-> "alt", a |-> a]
AltLits(ss) == Alt([k \in 1..Len(ss) |-> <<Lit(ss[k])>>])
\* r{lo,hi}, greedy; hi = -1 is no upper limit
Rep(r, lo, hi) == [t |-> "rep", r |-> r, lo |-> lo, hi |-> hi]
Star(r) == Rep(r, 0, -1)
Plus(r) == Rep(r, 1, -1)
Opt(r) == Rep(r, 0, 1)
\* capturing group number k
Grp(k, r) == [t |-> "grp", k |-> k, r |-> r]
Digit == Cls(DigitChars)
Space == Cls(SpaceChars)

NoMatch == [ok |-> FALSE, e |-> 0, caps |-> <<>>]

\* \b before position i
WordB(s, i) == (i > 1 /\ i - 1 <= Len(s) /\ Ch(s, i - 1) \in WordChars)
               # (i >= 1 /\ i <= Len(s) /\ Ch(s, i) \in WordChars)

LitAt(s, i, p, ic) ==
    /\ i + Len(p) - 1 <= Len(s)
    /\ IF ic THEN Lower(SubSeq(s, i, i + Len(p) - 1)) = Lower(p)
       ELSE SubSeq(s, i, i + Len(p) - 1) = p

\* The number of characters of class c that start at position i of s, at most hi
\* of them when hi is not -1.
RunLength(s, i, c, hi) ==
    LET avail == Len(s) - i + 1
        lim == IF hi # -1 /\ hi < avail THEN hi ELSE avail
    IN CHOOSE j \in 0..lim :
           /\ j = lim \/ Ch(s, i + j) \notin c
           /\ \A q \in 0..(j - 1) : Ch(s, i + q) \in c

\* The match of node sequence p at position i of s: the first one in
\* backtracking order. ic is re.IGNORECASE. A repetition of one character class
\* is greedy: of the lengths after which the rest matches, the longest.
RECURSIVE MatchAt(_, _, _, _, _)
RECURSIVE TryAlts(_, _, _, _, _, _, _)
MatchAt(p, s, i, caps, ic) ==
    IF Len(p) = 0 THEN [ok |-> TRUE, e |-> i, caps |-> caps]
    ELSE LET h == Head(p)
             rest == Tail(p)
         IN CASE h.t = "lit" ->
                   IF LitAt(s, i, h.s, ic) THEN MatchAt(rest, s, i + Len(h.s), caps, ic)
                   ELSE NoMatch
              [] h.t = "cls" ->
                   IF i <= Len(s) /\ Ch(s, i) \in h.c THEN MatchAt(rest, s, i + 1, caps, ic)
                   ELSE NoMatch
              [] h.t = "any" ->
                   IF i <= Len(s) /\ Ch(s, i) # "\n" THEN MatchAt(rest, s, i + 1, caps, ic)
                   ELSE NoMatch
              [] h.t = "wb" ->
                   IF WordB(s, i) THEN MatchAt(rest, s, i, caps, ic) ELSE NoMatch
              [] h.t = "alt" -> TryAlts(h.a, 1, rest, s, i, caps, ic)
              [] h.t = "rep" /\ Len(h.r) = 1 /\ h.r[1].t = "cls" ->
                   LET run == RunLength(s, i, h.r[1].c, h.hi)
                       tries == {[k |-> k, m |-> MatchAt(rest, s, i + k, caps, ic)] :
                                    k \in h.lo..run}
                       good == {x \in tries : x.m.ok}
                   IN IF good = {} THEN NoMatch
                      ELSE (CHOOSE x \in good : \A y \in good : y.k <= x.k).m
              [] h.t = "rep" /\ ~(Len(h.r) = 1 /\ h.r[1].t = "cls") ->
                   LET again == Rep(h.r, IF h.lo > 0 THEN h.lo - 1 ELSE 0,
                                    IF h.hi = -1 THEN -1 ELSE h.hi - 1)
                       more == IF h.hi # 0
                               THEN MatchAt(h.r \o <<again>> \o rest, s, i, caps, ic)
                               ELSE NoMatch
                   IN IF more.ok THEN more
                      ELSE IF h.lo = 0 THEN MatchAt(rest, s, i, caps, ic)
                      ELSE NoMatch
              [] h.t = "grp" ->
                   MatchAt(h.r \o <<[t |-> "close", k |-> h.k, b |-> i]>> \o rest,
                           s, i, caps, ic)
              [] h.t = "close" ->
                   MatchAt(rest, s, i, [caps EXCEPT ![h.k] = SubSeq(s, h.b, i - 1)], ic)

TryAlts(a, k, rest, s, i, caps, ic) ==
    IF k > Len(a) THEN NoMatch
    ELSE LET m == MatchAt(a[k] \o rest, s, i, caps, ic)
         IN IF m.ok THEN m ELSE TryAlts(a, k + 1, rest, s, i, caps, ic)

\* Of the matches hits (one per start position), those a left-to-right scan
\* from position from keeps: the leftmost, then the leftmost after its end, ...
RECURSIVE Scan(_, _)
Scan(hits, from) ==
    LET c == {x \in hits : x.i >= from}
    IN IF c = {} THEN <<>>
       ELSE LET x == CHOOSE y \in c : \A z \in c : y.i <= z.i
            IN <<[m |-> x.m, g |-> x.g]>> \o Scan(hits, x.e)

\* The matches of re.finditer(p, s): left to right, not overlapping. Each is
\* [m |-> the matched text, g |-> the texts of the groups (empty for a
\* group that took no part)]. ng is the number of groups.
FindFrom(p, s, ng, ic) ==
    LET at == {[i |-> i, r |-> MatchAt(p, s, i, [k \in 1..ng |-> ""], ic)] : i \in 1..Len(s)}
        hits == {[i |-> x.i, e |-> x.r.e, m |-> SubSeq(s, x.i, x.r.e - 1), g |-> x.r.caps] :
                    x \in {y \in at : y.r.ok /\ y.r.e > y.i}}
    IN Scan(hits, 1)

FindAll(p, s, ng) == FindFrom(p, s, ng, FALSE)
FindAllIC(p, s, ng) == FindFrom(p, s, ng, TRUE)

(***************************************************************************)
(* extract_experience_years                                                *)
(***************************************************************************)
YearsOrYrs == Alt(<<    <<Lit("years")>>, <<Lit("yrs")>>    >>)

year_patterns == <<
    \* (\d+)\+?\s*(?:years|yrs)(?:\s*of)?\s*experience
    <<Grp(1, <<Plus(<<Digit>>)>>), Opt(<<Lit("+")>>), Star(<<Space>>), YearsOrYrs,
      Opt(<<Star(<<Space>>), Lit("of")>>), Star(<<Space>>), Lit("experience")>>,
    \* experience\s*(?:of|for)?\s*(\d+)\+?\s*(?:years|yrs)
    <<Lit("experience"), Star(<<Space>>), Opt(<<AltLits(<<"of", "for">>)>>), Star(<<Space>>),
      Grp(1, <<Plus(<<Digit>>)>>), Opt(<<Lit("+")>>), Star(<<Space>>), YearsOrYrs>>,
    \* worked\s*(?:for)?\s*(\d+)\+?\s*(?:years|yrs)
    <<Lit("worked"), Star(<<Space>>), Opt(<<Lit("for")>>), Star(<<Space>>),
      Grp(1, <<Plus(<<Digit>>)>>), Opt(<<Lit("+")>>), Star(<<Space>>), YearsOrYrs>>,
    \* (\d+)\+?\s*(?:years|yrs)(?:\s*in)
    <<Grp(1, <<Plus(<<Digit>>)>>), Opt(<<Lit("+")>>), Star(<<Space>>), YearsOrYrs,
      Star(<<Space>>), Lit("in")>>
>>

MonthNames == <<"Jan", "Feb", "Mar", "Apr", "May", "Jun", "Jul", "Aug", "Sep", "Oct", "Nov", "Dec">>

\* (Jan|...|Dec)[a-z]*\.?,?\s*\'?(\d{2,4})\s*-\s*(Jan|...|Dec|Present)[a-z]*\.?,?\s*\'?(\d{0,4})
date_pattern == <<
    Grp(1, <<AltLits(MonthNames)>>), Star(<<Cls(LowerChars)>>), Opt(<<Lit(".")>>),
    Opt(<<Lit(",")>>), Star(<<Space>>), Opt(<<Lit("'")>>), Grp(2, <<Rep(<<Digit>>, 2, 4)>>),
    Star(<<Space>>), Lit("-"), Star(<<Space>>),
    Grp(3, <<AltLits(MonthNames \o <<"Present">>)>>), Star(<<Cls(LowerChars)>>),
    Opt(<<Lit(".")>>), Opt(<<Lit(",")>>), Star(<<Space>>), Opt(<<Lit("'")>>),
    Grp(4, <<Rep(<<Digit>>, 0, 4)>>)
>>

\* month_to_num.get(m[:3], default)
month_to_num(m, default) ==
    LET k == SubSeq(m, 1, IF Len(m) < 3 THEN Len(m) ELSE 3)
    IN IF \E n \in 1..12 : MonthNames[n] = k
       THEN CHOOSE n \in 1..12 : MonthNames[n] = k
       ELSE default

\* Two-digit years: below 50 is 20xx, otherwise 19xx.
\* Variant: every short year is taken to be 20xx.
ExpandYear_NoPivot(y) ==
    IF Len(y) <= 2 THEN ParseInt(y) + 2000 ELSE ParseInt(y)

ExpandYear(y) ==
    IF Len(y) <= 2
    THEN ParseInt(y) + (IF ParseInt(y) < 50 THEN 2000 ELSE 1900)
    ELSE ParseInt(y)

\* Tier 1: the groups of every match of every pattern on text.lower(), in order.
RECURSIVE ExplicitYears(_, _)
ExplicitYears(tl, k) ==
    IF k > Len(year_patterns) THEN <<>>
    ELSE LET ms == FindAll(year_patterns[k], tl, 1)
         IN [j \in 1..Len(ms) |-> ParseInt(Replace(ms[j].g[1], "+", ""))]
            \o ExplicitYears(tl, k + 1)

RECURSIVE MaxYears(_, _)
MaxYears(total, ys) ==
    IF Len(ys) = 0 THEN total
    ELSE MaxYears(IF Head(ys) > total THEN Head(ys) ELSE total, Tail(ys))

\* duration of one date_pattern match, in months (twelfths of a year)
Duration(g, clock) ==
    LET start_month_num == month_to_num(g[1], 1)
        start_year == ExpandYear(g[2])
        end_month_num == IF g[3] = "Present" THEN clock.month ELSE month_to_num(g[3], 12)
        end_year == IF g[3] = "Present" THEN clock.year
                    ELSE IF g[4] = "" THEN clock.year
                    ELSE ExpandYear(g[4])
    IN (end_year - start_year) * 12 + (end_month_num - start_month_num)

\* Variant: every duration is kept, whatever its sign.
KeepDuration_Any(d) == TRUE

\* if duration > 0: all_durations.append(duration)
KeepDuration(d) == d > 0

\* all_durations, in months
all_durations(txt, clock) ==
    LET ms == FindAll(date_pattern, txt, 4)
        ds == [j \in 1..Len(ms) |-> Duration(ms[j].g, clock)]
    IN SelectSeq(ds, KeepDuration)

RECURSIVE SumSeq(_)
SumSeq(q) == IF Len(q) = 0 THEN 0 ELSE Head(q) + SumSeq(Tail(q))

\* round(months / 12.0, 2), in hundredths of a year. months * 100 / 12 is a
\* whole number or a third away from one, so no tie is ever rounded.
RoundYears(months) == (months * 50 + 3) \div 6

\* Variant: Tier 2 runs whatever Tier 1 found.
Tier2Runs_Always(total) == TRUE

\* The guard of Tier 2 (line 259).
Tier2Runs(total) == total = 0

\* total_years, in hundredths of a year
extract_experience_years(txt, clock) ==
    LET total == MaxYears(0, ExplicitYears(Lower(txt), 1))
    IN IF Tier2Runs(total)
       THEN LET ds == all_durations(txt, clock)
            IN IF Len(ds) > 0 THEN RoundYears(SumSeq(ds)) ELSE total * 100
       ELSE total * 100

(***************************************************************************)
(* Entity spans (doc.ents): a sequence of [text, label]                    *)
(***************************************************************************)
\* [ent.text for ent in doc.ents if ent.label_ == label]
TextsWithLabel(es, label) ==
    LET keep(e) == e.label = label
        sel == SelectSeq(es, keep)
    IN [k \in 1..Len(sel) |-> sel[k].text]

(***************************************************************************)
(* extract_email                                                           *)
(***************************************************************************)
AlnumChars == AlphaChars \cup DigitChars

\* \b[A-Za-z0-9._%+-]+@[A-Za-z0-9.-]+\.[A-Z|a-z]{2,}\b
email_regex == <<
    WB, Plus(<<Cls(AlnumChars \cup {".", "_", "%", "+", "-"})>>), Lit("@"),
    Plus(<<Cls(AlnumChars \cup {".", "-"})>>), Lit("."),
    Rep(<<Cls(AlphaChars \cup {"|"})>>, 2, -1), WB
>>

extract_email(txt) ==
    LET emails == FindAll(email_regex, txt, 0)
    IN IF Len(emails) > 0 THEN emails[1].m ELSE ""

(***************************************************************************)
(* extract_phone                                                           *)
(***************************************************************************)
PhoneSep == Opt(<<Cls({"-", "."} \cup SpaceChars)>>)

\* (\+\d{1,3}[-.\s]?)?(\(?\d{3}\)?[-.\s]?\d{3}[-.\s]?\d{4}|\d{10})
phone_regex == <<
    Opt(<<Grp(1, <<Lit("+"), Rep(<<Digit>>, 1, 3), PhoneSep>>)>>),
    Grp(2, <<Alt(<<
        <<Opt(<<Lit("(")>>), Rep(<<Digit>>, 3, 3), Opt(<<Lit(")")>>), PhoneSep,
          Rep(<<Digit>>, 3, 3), PhoneSep, Rep(<<Digit>>, 4, 4)>>,
        <<Rep(<<Digit>>, 10, 10)>>
    >>)>>)
>>

extract_phone(txt) ==
    LET phones == FindAll(phone_regex, txt, 2)
        phone == phones[1].g[1] \o phones[1].g[2]
    IN IF Len(phones) > 0 /\ Len(phone) >= 10 THEN phone ELSE ""

(***************************************************************************)
(* extract_name                                                            *)
(***************************************************************************)
\* list.sort(key=len, reverse=True): stable, so equal lengths keep their order
\* Variant: an entity goes before the entities of its own length.
RECURSIVE InsertByLen_Unstable(_, _)
InsertByLen_Unstable(q, x) ==
    IF Len(q) = 0 THEN <<x>>
    ELSE IF Len(Head(q)) > Len(x) THEN <<Head(q)>> \o InsertByLen_Unstable(Tail(q), x)
    ELSE <<x>> \o q

RECURSIVE InsertByLen(_, _)
InsertByLen(q, x) ==
    IF Len(q) = 0 THEN <<x>>
    ELSE IF Len(Head(q)) >= Len(x) THEN <<Head(q)>> \o InsertByLen(Tail(q), x)
    ELSE <<x>> \o q

RECURSIVE SortByLenDesc(_)
SortByLenDesc(q) ==
    IF Len(q) = 0 THEN <<>>
    ELSE InsertByLen(SortByLenDesc(SubSeq(q, 1, Len(q) - 1)), q[Len(q)])

extract_name(es) ==
    LET candidates == TextsWithLabel(es, "PERSON")
    IN IF Len(candidates) > 0 THEN SortByLenDesc(candidates)[1] ELSE ""

(***************************************************************************)
(* extract_skills                                                          *)
(***************************************************************************)
tech_skills == <<
    "python", "java", "javascript", "react", "angular", "vue", "node.js", "django",
    "flask", "html", "css", "html5", "css3", "sql", "nosql", "mongodb",
    "postgresql", "mysql", "mariadb", "aws", "azure", "gcp", "docker", "kubernetes",
    "ci/cd", "git", "jenkins", "terraform", "machine learning", "deep learning", "nlp", "data science",
    "data analysis", "powerbi", "r", "golang", "c++", "c#", "php", "ruby",
    "scala", "swift", "kotlin", "typescript", "hadoop", "spark", "tableau", "excel",
    "powerpoint", "linux", "unix", "windows", "macos", "rest api", "graphql", "oauth",
    "json", "xml", "soap", "jquery", "bootstrap", "redux", "spring", "hibernate",
    "servlet", "jsp", "asp.net", "mvc", "mvvm", "oop", "tdd", "agile",
    "scrum", "kanban", "jira", "confluence", "project management", "team management", "leadership", "communication",
    "problem-solving", "critical thinking", "cooperation", "mobile development", "android", "ios", "react native", "flutter",
    "xamarin", "tensorflow", "pytorch", "keras", "scikit-learn", "pandas", "numpy", "matplotlib",
    "seaborn", "d3.js", "blockchain", "cryptocurrency", "smart contracts", "solidity", "web3", "ethereum",
    "devops", "sre", "system design", "microservices", "restful", "cybersecurity", "pentesting"
>>

\* re.search(p, s)
Search(p, s) == \E i \in 1..Len(s) : MatchAt(p, s, i, <<>>, FALSE).ok

\* \b + re.escape(skill) + \b
SkillPattern(skill) == <<WB, Lit(skill), WB>>

\* Pass (a): the vocabulary terms found in text.lower()
VocabularySkills(txt) ==
    LET text_lower == Lower(txt)
    IN {tech_skills[k] : k \in {j \in 1..Len(tech_skills) :
                                    Search(SkillPattern(tech_skills[j]), text_lower)}}

\* Pass (b): ORG entities whose lowercased text is a vocabulary term
EntitySkills(es) ==
    LET orgs == TextsWithLabel(es, "ORG")
    IN {orgs[k] : k \in {j \in 1..Len(orgs) : Lower(orgs[j]) \in SeqToSet(tech_skills)}}

\* \b(?:Python|Java(?:Script)?|C\+\+|C#|PHP|Ruby|Go(?:lang)?|Swift|Kotlin|R|Scala|Perl|Rust
\*    |TypeScript|Dart|Objective-C|Shell|Bash|PowerShell|SQL|NoSQL)\b
lang_pattern == <<
    WB,
    Alt(<<
        <<Lit("Python")>>, <<Lit("Java"), Opt(<<Lit("Script")>>)>>, <<Lit("C++")>>,
        <<Lit("C#")>>, <<Lit("PHP")>>, <<Lit("Ruby")>>, <<Lit("Go"), Opt(<<Lit("lang")>>)>>,
        <<Lit("Swift")>>, <<Lit("Kotlin")>>, <<Lit("R")>>, <<Lit("Scala")>>, <<Lit("Perl")>>,
        <<Lit("Rust")>>, <<Lit("TypeScript")>>, <<Lit("Dart")>>, <<Lit("Objective-C")>>,
        <<Lit("Shell")>>, <<Lit("Bash")>>, <<Lit("PowerShell")>>, <<Lit("SQL")>>,
        <<Lit("NoSQL")>>
    >>),
    WB
>>

\* Pass (c): re.findall(lang_pattern, text, re.IGNORECASE)
LanguageSkills(txt) ==
    LET langs == FindAllIC(lang_pattern, txt, 0)
    IN {langs[k].m : k \in 1..Len(langs)}

extract_skills(es, txt) ==
    SortedSet(VocabularySkills(txt) \cup EntitySkills(es) \cup LanguageSkills(txt))

(***************************************************************************)
(* extract_education                                                       *)
(***************************************************************************)
EduWords == <<"university", "college", "institute", "school">>

\* Pass (a): ORG entities whose lowercased text has an education word
edu_orgs(es) ==
    LET orgs == TextsWithLabel(es, "ORG")
        isEdu(o) == ContainsAny(Lower(o), EduWords)
    IN SelectSeq(orgs, isEdu)

\* \b(?:Bachelor|Master|MBA|PhD|BSc|MSc|B\.Tech|M\.Tech|B\.E|M\.E|B\.A|M\.A|B\.Com|M\.Com
\*    |Bachelor\'s|Master\'s|Doctorate|Diploma)
\*   (?:\sof\s(?:Science|Arts|Engineering|Technology|Commerce|Business Administration))?\b
degree_pattern == <<
    WB,
    AltLits(<<"Bachelor", "Master", "MBA", "PhD", "BSc", "MSc", "B.Tech", "M.Tech", "B.E",
              "M.E", "B.A", "M.A", "B.Com", "M.Com", "Bachelor's", "Master's", "Doctorate",
              "Diploma">>),
    Opt(<<Space, Lit("of"), Space,
          AltLits(<<"Science", "Arts", "Engineering", "Technology", "Commerce",
                    "Business Administration">>)>>),
    WB
>>

\* \bin\s(?:Computer Science|Information Technology|CSE| Business|Economics|...)\b
major_pattern == <<
    WB, Lit("in"), Space,
    AltLits(<<"Computer Science", "Information Technology", "CSE", " Business", "Economics",
              "Engineering", "Mathematics", "Physics", "Chemistry", "Biology", "Psychology",
              "Marketing", "Finance", "Accounting", "Management", "Law", "Medicine",
              "Communications", "Media", "Design", "Architecture">>),
    WB
>>

MatchTexts(ms) == [k \in 1..Len(ms) |-> ms[k].m]

\* What the majors loop compares with education_data before it appends (line 235).
MajorKey(major) == major

\* What the majors loop appends (line 236).
MajorEntry(major) == Replace(major, "in ", "")

\* for degree in degrees: if degree not in education_data: append(degree)
RECURSIVE AddDegrees(_, _)
AddDegrees(education_data, degrees) ==
    IF Len(degrees) = 0 THEN education_data
    ELSE AddDegrees(IF Head(degrees) \notin SeqToSet(education_data)
                    THEN Append(education_data, Head(degrees))
                    ELSE education_data,
                    Tail(degrees))

\* for major in majors: if major not in education_data: append(major.replace("in ", ""))
RECURSIVE AddMajors(_, _)
AddMajors(education_data, majors) ==
    IF Len(majors) = 0 THEN education_data
    ELSE AddMajors(IF MajorKey(Head(majors)) \notin SeqToSet(education_data)
                   THEN Append(education_data, MajorEntry(Head(majors)))
                   ELSE education_data,
                   Tail(majors))

\* for org in edu_orgs: education_data.append(org)
AddOrgs(education_data, orgs) == education_data \o orgs

\* Variant: the degrees are appended before the educational ORG entities.
extract_education_DegreesFirst(es, txt) ==
    LET degrees == MatchTexts(FindAll(degree_pattern, txt, 0))
        majors == MatchTexts(FindAll(major_pattern, txt, 0))
    IN AddMajors(AddOrgs(AddDegrees(<<>>, degrees), edu_orgs(es)), majors)

extract_education(es, txt) ==
    LET degrees == MatchTexts(FindAll(degree_pattern, txt, 0))
        majors == MatchTexts(FindAll(major_pattern, txt, 0))
    IN AddMajors(AddDegrees(AddOrgs(<<>>, edu_orgs(es)), degrees), majors)

(***************************************************************************)
(* extract_companies                                                       *)
(***************************************************************************)
company_suffixes == <<
    "Ltd", "Limited", "LLC", "Corp", "Corporation", "Inc", "Incorporated",
    "Pvt", "Private", "Pvt. Ltd", "Systems", "Technologies", "Solutions", "Software",
    "Services", "Group", "Holdings", "International", "Global"
>>

non_company_indicators == <<
    "Certificate", "Certification", "Course", "Courses", "Stack", "Full Stack", "Data Science",
    "Data Scientist", "Engineer", "Developer", "Intern", "Machine Learning", "AI", "Artificial Intelligence",
    "NLP", "Deep Learning", "CSE", "Computer Science", "Education", "University", "College",
    "School", "Institute", "Fundamentals", "Analysis", "Analytics"
>>

\* any(x.lower() in s.lower() for x in xs)
ContainsAnyLower(s, xs) ==
    LET sl == Lower(s)
    IN \E k \in 1..Len(xs) : Contains(sl, Lower(xs[k]))

NameChars == AlphaChars \cup SpaceChars

\* ([A-Z][A-Za-z\s]+)\s+ + re.escape(suffix) + \b
SuffixPattern(suffix) == <<
    Grp(1, <<Cls(UpperChars), Plus(<<Cls(NameChars)>>)>>), Plus(<<Space>>), Lit(suffix), WB
>>

\* Source 1: <Capitalized words> <suffix>
RECURSIVE SuffixCompanies(_, _)
SuffixCompanies(txt, k) ==
    IF k > Len(company_suffixes) THEN {}
    ELSE LET ms == FindAll(SuffixPattern(company_suffixes[k]), txt, 1)
             name(j) == Strip(ms[j].g[1]) \o " " \o company_suffixes[k]
         IN {name(j) : j \in {i \in 1..Len(ms) :
                                 ~ContainsAnyLower(name(i), non_company_indicators)}}
            \cup SuffixCompanies(txt, k + 1)

\* '|'.join(company_suffixes): the suffixes are not escaped here, so the dot of
\* "Pvt. Ltd" stands for any character.
SuffixAlternatives == Alt(<<
    <<Lit("Ltd")>>, <<Lit("Limited")>>, <<Lit("LLC")>>, <<Lit("Corp")>>, <<Lit("Corporation")>>,
    <<Lit("Inc")>>, <<Lit("Incorporated")>>, <<Lit("Pvt")>>, <<Lit("Private")>>,
    <<Lit("Pvt"), AnyCh, Lit(" Ltd")>>, <<Lit("Systems")>>, <<Lit("Technologies")>>,
    <<Lit("Solutions")>>, <<Lit("Software")>>, <<Lit("Services")>>, <<Lit("Group")>>,
    <<Lit("Holdings")>>, <<Lit("International")>>, <<Lit("Global")>>
>>)

EmployerName == Grp(1, <<Cls(UpperChars), Plus(<<Cls(NameChars)>>), Plus(<<Space>>),
                         SuffixAlternatives>>)

employment_patterns == <<
    \* (?:worked|employed)\s+(?:at|by|with|for)\s+([A-Z][A-Za-z\s]+(?:\s+(?:Ltd|...)))
    <<AltLits(<<"worked", "employed">>), Plus(<<Space>>),
      AltLits(<<"at", "by", "with", "for">>), Plus(<<Space>>), EmployerName>>,
    \* (?:position|role|job)\s+at\s+([A-Z][A-Za-z\s]+(?:\s+(?:Ltd|...)))
    <<AltLits(<<"position", "role", "job">>), Plus(<<Space>>), Lit("at"), Plus(<<Space>>),
      EmployerName>>
>>

\* Source 2: worked/employed at ..., position/role/job at ...
RECURSIVE EmploymentCompanies(_, _)
EmploymentCompanies(txt, k) ==
    IF k > Len(employment_patterns) THEN {}
    ELSE LET ms == FindAll(employment_patterns[k], txt, 1)
         IN {Strip(ms[j].g[1]) : j \in {i \in 1..Len(ms) :
                                   ~ContainsAnyLower(ms[i].g[1], non_company_indicators)}}
            \cup EmploymentCompanies(txt, k + 1)

\* Source 3: ORG entities with a suffix and no disqualifying indicator
OrgCompanies(es) ==
    LET orgs == TextsWithLabel(es, "ORG")
        ok(org_text) ==
            LET is_likely_company == ContainsAnyLower(org_text, company_suffixes)
                contains_non_company == ContainsAnyLower(org_text, non_company_indicators)
                is_educational == ContainsAny(Lower(org_text), EduWords)
                is_tech_term == ContainsAny(Lower(org_text),
                                    <<"python", "java", "javascript", "ml", "ai", "nlp">>)
            IN is_likely_company
               /\ ~(contains_non_company \/ is_educational \/ is_tech_term)
    IN {orgs[k] : k \in {j \in 1..Len(orgs) : ok(orgs[j])}}

\* The candidate set (lines 324-355)
Candidates(es, txt) ==
    SuffixCompanies(txt, 1) \cup EmploymentCompanies(txt, 1) \cup OrgCompanies(es)

\* The filter of lines 357-364
KeepCompany(company) ==
    LET is_job_title == ContainsAny(Lower(company),
                            <<"engineer", "developer", "scientist", "intern">>)
        is_course == ContainsAny(Lower(company),
                            <<"certificate", "course", "fundamentals", "full stack">>)
        is_technology == ContainsAny(Lower(company),
                            <<"data science", "machine learning", "ai", "ml", "analytics">>)
    IN /\ ~(is_job_title \/ is_course \/ is_technology)
       /\ Len(company) >= 4
       /\ IsUpper(Ch(company, 1))

filtered_companies(es, txt) == {c \in Candidates(es, txt) : KeepCompany(c)}

FallbackTerms == <<"university", "college", "school", "data science", "python",
                   "certificate", "machine learning", "fundamentals">>

\* Variant: the fallback compares the terms with the entity text as written.
fallback_companies_CaseSensitive(es) ==
    LET orgs == TextsWithLabel(es, "ORG")
        keep(o) == Len(o) >= 4 /\ ~ContainsAny(o, FallbackTerms)
    IN SelectSeq(orgs, keep)

\* The fallback of lines 367-374: raw ORG entities, in entity order
fallback_companies(es) ==
    LET orgs == TextsWithLabel(es, "ORG")
        keep(o) == Len(o) >= 4 /\ ~ContainsAnyLower(o, FallbackTerms)
    IN SelectSeq(orgs, keep)

NoCompanies == "No companies detected"

\* Variant: the fallback list is returned even when it is empty.
FallbackResult_NoSentinel(es) == fallback_companies(es)

\* What the fallback branch returns (line 376)
FallbackResult(es) ==
    IF Len(fallback_companies(es)) > 0 THEN fallback_companies(es) ELSE <<NoCompanies>>

extract_companies(es, txt) ==
    LET filtered == filtered_companies(es, txt)
    IN IF Cardinality(filtered) = 0 THEN FallbackResult(es) ELSE SortedSet(filtered)

(***************************************************************************)
(* process_resume: one step per extractor, in the order of lines 413-419.  *)
(* Streamlit runs the script again on every interaction with the page, so  *)
(* the same uploaded text is processed again, possibly at a later date.    *)
(***************************************************************************)
\* The results dictionary before any extractor has run.
NoResults == [name |-> "", email |-> "", phone |-> "", skills |-> <<>>,
              education |-> <<>>, total_years |-> 0, companies |-> <<>>]

\* Fields assigned once pc has passed the extractor's step.
Steps == <<"name", "email", "phone", "skills", "education", "experience", "companies", "done">>
StepNo(p) == CHOOSE k \in 1..Len(Steps) : Steps[k] = p
After(step) == StepNo(pc) > StepNo(step)

ExtractName ==
    /\ pc = "name"
    /\ results' = [results EXCEPT !.name = extract_name(ents)]
    /\ pc' = "email"
    /\ UNCHANGED <<text, ents, now, prev>>

ExtractEmail ==
    /\ pc = "email"
    /\ results' = [results EXCEPT !.email = extract_email(text)]
    /\ pc' = "phone"
    /\ UNCHANGED <<text, ents, now, prev>>

ExtractPhone ==
    /\ pc = "phone"
    /\ results' = [results EXCEPT !.phone = extract_phone(text)]
    /\ pc' = "skills"
    /\ UNCHANGED <<text, ents, now, prev>>

ExtractSkills ==
    /\ pc = "skills"
    /\ results' = [results EXCEPT !.skills = extract_skills(ents, text)]
    /\ pc' = "education"
    /\ UNCHANGED <<text, ents, now, prev>>

ExtractEducation ==
    /\ pc = "education"
    /\ results' = [results EXCEPT !.education = extract_education(ents, text)]
    /\ pc' = "experience"
    /\ UNCHANGED <<text, ents, now, prev>>

\* datetime.now() is read inside the extractor (lines 264-265).
ExtractExperienceYears ==
    /\ pc = "experience"
    /\ results' = [results EXCEPT !.total_years = extract_experience_years(text, now)]
    /\ pc' = "companies"
    /\ UNCHANGED <<text, ents, now, prev>>

ExtractCompanies ==
    /\ pc = "companies"
    /\ results' = [results EXCEPT !.companies = extract_companies(ents, text)]
    /\ pc' = "done"
    /\ UNCHANGED <<text, ents, now, prev>>

\* The processing dates the model draws from: (year, month) of datetime.now().
Clocks == {[year |-> 2024, month |-> 1], [year |-> 2025, month |-> 7]}

NotBefore(c, d) == c.year > d.year \/ (c.year = d.year /\ c.month >= d.month)

\* A rerun of the script on the same upload: the text and (the entity model
\* being deterministic) the entities are the same, the date may have moved on.
\* prev keeps the finished run's results and date.
Rerun ==
    /\ pc = "done"
    /\ prev' = [ran |-> TRUE, now |-> now, results |-> results]
    /\ now' \in {c \in Clocks : NotBefore(c, now)}
    /\ results' = NoResults
    /\ pc' = "name"
    /\ UNCHANGED <<text, ents>>

Next ==
    \/ ExtractName
    \/ ExtractEmail
    \/ ExtractPhone
    \/ ExtractSkills
    \/ ExtractEducation
    \/ ExtractExperienceYears
    \/ ExtractCompanies
    \/ Rerun

(***************************************************************************)
(* Documents. A document is a sequence of pieces joined by single spaces;  *)
(* a piece with a label is an entity span of the text, in reading order.   *)
(***************************************************************************)
MaxPieces == 2

P(s) == [s |-> s, l |-> ""]
E(s, l) == [s |-> s, l |-> l]

DocsOf(pool) == UNION {[1..n -> pool] : n \in 0..MaxPieces}

RECURSIVE DocText(_)
DocText(d) ==
    IF Len(d) = 0 THEN ""
    ELSE IF Len(d) = 1 THEN d[1].s
    ELSE d[1].s \o " " \o DocText(Tail(d))

DocEnts(d) ==
    LET labelled(p) == p.l # ""
        sel == SelectSeq(d, labelled)
    IN [k \in 1..Len(sel) |-> [text |-> sel[k].s, label |-> sel[k].l]]

InitOf(pool) ==
    /\ \E d \in DocsOf(pool) : text = DocText(d) /\ ents = DocEnts(d)
    /\ now \in Clocks
    /\ pc = "name"
    /\ results = NoResults
    /\ prev = [ran |-> FALSE, now |-> now, results |-> NoResults]

ExperiencePool == {
    P("5+ years of experience"), P("0 years of experience"), P("Jan 2019 - Present"),
    P("Jun 2018 - Dec 2020"), P("Mar 2020 - Jan 2019"), P("Sep '98 - Feb")
}

CompaniesPool == {
    E("Zeta", "ORG"), E("Acme", "ORG"), E("Zeta Systems", "ORG"), P("worked at Acme Corp"),
    E("Oxford University Ltd", "ORG"), E("Yale University", "ORG")
}

EducationPool == {
    E("Yale University", "ORG"), E("MIT School", "ORG"), E("Acme Corp", "ORG"),
    P("MBA in Physics"), P("PhD"), P("in Law")
}

SkillsPool == {
    P("Experienced in Python, C++ and node.js"), P("C++"), P("python"), P("javascript"),
    E("AWS", "ORG"), P("c#, r")
}

NamesPool == {
    E("Ann Lee", "PERSON"), E("Bob Roe", "PERSON"), E("Al", "PERSON"), E("Cleo Park", "PERSON"),
    E("Maximilian Corp", "ORG"), P("resume")
}

RangesPool == {
    P("Jan 2019 - Feb 2019"), P("Mar 2020 - Jan 2019"), P("Jun 2019 - Jun 2019"),
    P("Sep '98 - Feb"), P("Mar '21 - Present"), P("3 yrs in")
}

InitExperience == InitOf(ExperiencePool)
InitCompanies == InitOf(CompaniesPool)
InitEducation == InitOf(EducationPool)
InitSkills == InitOf(SkillsPool)
Init == InitOf(ExperiencePool \cup CompaniesPool \cup EducationPool \cup SkillsPool)

SpecExperience == InitExperience /\ [][Next]_vars
SpecCompanies == InitCompanies /\ [][Next]_vars
SpecEducation == InitEducation /\ [][Next]_vars
SpecSkills == InitSkills /\ [][Next]_vars
InitNames == InitOf(NamesPool)
SpecNames == InitNames /\ [][Next]_vars
InitRanges == InitOf(RangesPool)
SpecRanges == InitRanges /\ [][Next]_vars
Spec == Init /\ [][Next]_vars

(***************************************************************************)
(* Properties                                                              *)
(***************************************************************************)
NoDuplicates(q) == \A i, j \in 1..Len(q) : i # j => q[i] # q[j]

Ascending(q) == \A i, j \in 1..Len(q) : i < j => ~StrLess(q[j], q[i])

\* The explicit "N years" values of the text, and its date-range matches.
ExplicitOf(txt) == ExplicitYears(Lower(txt), 1)
RangesOf(txt) == FindAll(date_pattern, txt, 4)

\* A date range whose end is Present, or a month without a year.
OpenEnded(g) == g[3] = "Present" \/ g[4] = ""

\* C1: when at least one explicit "N years" pattern matches (for any N >= 0,
\* N = 0 included) and the text also has date ranges, the result is the
\* explicit-phrase value (the largest N); the date ranges never contribute.
C1_ExplicitPhraseWins ==
    (After("experience") /\ Len(ExplicitOf(text)) > 0 /\ Len(RangesOf(text)) > 0)
        => results.total_years = 100 * MaxYears(0, ExplicitOf(text))

\* C2 as stated: two runs on the same text and entity spans return the same
\* value for every field, whatever the processing dates of the two runs.
C2_SameInputsSameResults ==
    (pc = "done" /\ prev.ran) => results = prev.results

\* The text makes extract_experience_years read the date: no explicit phrase
\* gives a positive N, and some date range is open-ended.
ReadsDate(txt) ==
    /\ MaxYears(0, ExplicitOf(txt)) = 0
    /\ \E k \in 1..Len(RangesOf(txt)) : OpenEnded(RangesOf(txt)[k].g)

\* C2 (amended): two runs on the same text and entity spans return the same
\* name, email, phone, skills, education and companies whatever the dates of
\* the runs and whatever ran before; they return the same total_years when
\* the two runs fall in the same calendar year and month, or when the text
\* does not make the extractor read the date.
C2_SameResultsUpToDate ==
    (pc = "done" /\ prev.ran) =>
        /\ results.name = prev.results.name
        /\ results.email = prev.results.email
        /\ results.phone = prev.results.phone
        /\ results.skills = prev.results.skills
        /\ results.education = prev.results.education
        /\ results.companies = prev.results.companies
        /\ (prev.now = now \/ ~ReadsDate(text))
               => results.total_years = prev.results.total_years

\* Two finished runs at different dates on a text with a date range, with the
\* same positive total_years.
C2_Witness ==
    /\ pc = "done" /\ prev.ran /\ prev.now # now
    /\ Len(RangesOf(text)) > 0
    /\ results.total_years > 0
    /\ results = prev.results

\* C3: the list returned by extract_companies has no two equal strings, on the
\* primary path and on the fallback path alike, also when the same ORG entity
\* text occurs more than once; the same holds for extract_skills.
C3_NoDuplicateCompaniesOrSkills ==
    After("companies") => NoDuplicates(results.companies) /\ NoDuplicates(results.skills)

\* C4: the list returned by extract_companies is in ascending alphabetical
\* order, for the filtered candidates and for the fallback list alike.
C4_CompaniesAscending ==
    After("companies") => Ascending(results.companies)

\* C5: extract_companies never returns an empty list; when no candidate
\* survives the filter and no ORG entity qualifies for the fallback the result
\* is exactly the one-element list with the sentinel; and the sentinel never
\* stands beside a real candidate or fallback entity.
C5_SentinelOrCompanies ==
    After("companies") =>
        LET nothing == /\ filtered_companies(ents, text) = {}
                       /\ Len(fallback_companies(ents)) = 0
        IN /\ Len(results.companies) >= 1
           /\ nothing => results.companies = <<NoCompanies>>
           /\ ~nothing => NoCompanies \notin SeqToSet(results.companies)

\* ORG entities are there, none is kept, and the sentinel alone is returned.
C5_Witness ==
    /\ After("companies")
    /\ \E k \in 1..Len(ents) : ents[k].label = "ORG"
    /\ results.companies = <<NoCompanies>>

\* C6: no string returned by extract_companies contains "University" in any
\* letter case, whichever source or path produced it.
C6_NoUniversity ==
    After("companies") =>
        \A k \in 1..Len(results.companies) :
            ~Contains(Lower(results.companies[k]), "university")

\* An entity naming a university is left out while other companies are returned.
C6_Witness ==
    /\ After("companies")
    /\ \E k \in 1..Len(ents) : Contains(Lower(ents[k].text), "university")
    /\ results.companies # <<NoCompanies>>

\* C7: the list returned by extract_education has no two entries that are the
\* same string, whichever pass produced them.
C7_NoDuplicateEducation ==
    After("education") => NoDuplicates(results.education)

\* C8: in the list returned by extract_education the educational ORG entities
\* come first, in entity order, then the entries of the degree matches, then
\* those of the major matches; one org, one degree and one major give
\* [org, degree, major].
C8_OrgsDegreesMajors ==
    After("education") =>
        LET ed == results.education
            orgs == edu_orgs(ents)
            degrees == MatchTexts(FindAll(degree_pattern, text, 0))
            majors == MatchTexts(FindAll(major_pattern, text, 0))
        IN \E i \in 0..Len(ed) : \E j \in i..Len(ed) :
              /\ SubSeq(ed, 1, i) = orgs
              /\ \A k \in (i + 1)..j : ed[k] \in SeqToSet(degrees)
              /\ \A k \in (j + 1)..Len(ed) : ed[k] \in {MajorEntry(m) : m \in SeqToSet(majors)}
              /\ (Len(orgs) = 1 /\ Len(degrees) = 1 /\ Len(majors) = 1)
                    => ed = <<orgs[1], degrees[1], MajorEntry(majors[1])>>

\* One educational ORG, one degree and one major, returned in that order.
C8_Witness ==
    /\ After("education")
    /\ results.education = <<"Yale University", "MBA", "Physics">>

Delimiters == SpaceChars \cup {","}

\* term stands in s as a token of its own: delimited by whitespace, commas or
\* the ends of the text.
Standalone(s, term) ==
    \E i \in 1..Len(s) :
        /\ StartsAt(s, i, term)
        /\ (i = 1 \/ Ch(s, i - 1) \in Delimiters)
        /\ (i + Len(term) > Len(s) \/ Ch(s, i + Len(term)) \in Delimiters)

\* term occurs in s, and only with a letter, digit or underscore next to it.
InsideWordsOnly(s, term) ==
    /\ Contains(s, term)
    /\ \A i \in 1..Len(s) :
          StartsAt(s, i, term) =>
              \/ (i > 1 /\ Ch(s, i - 1) \in WordChars)
              \/ (i + Len(term) <= Len(s) /\ Ch(s, i + Len(term)) \in WordChars)

\* C9: every vocabulary term that stands in the lowercased text as a token of
\* its own is in the output of extract_skills, terms that hold or end in
\* punctuation included (c++, node.js); a term that occurs only inside a
\* longer word is not added by the vocabulary pass.
C9_StandaloneTermsFound ==
    After("skills") =>
        \A k \in 1..Len(tech_skills) :
            /\ Standalone(Lower(text), tech_skills[k])
                  => tech_skills[k] \in SeqToSet(results.skills)
            /\ InsideWordsOnly(Lower(text), tech_skills[k])
                  => tech_skills[k] \notin VocabularySkills(text)

\* C10: the value returned by extract_experience_years is never negative, at
\* any processing date; with no explicit phrase and no date range of positive
\* duration it is exactly 0.
C10_NonNegative ==
    After("experience") =>
        /\ results.total_years >= 0
        /\ (/\ Len(ExplicitOf(text)) = 0
            /\ \A k \in 1..Len(RangesOf(text)) : Duration(RangesOf(text)[k].g, now) <= 0)
               => results.total_years = 0

\* Tier 2 ran on a text whose only date range ends before it starts.
C10_Witness ==
    /\ After("experience")
    /\ Len(ExplicitOf(text)) = 0
    /\ Len(RangesOf(text)) > 0
    /\ \A k \in 1..Len(RangesOf(text)) : Duration(RangesOf(text)[k].g, now) < 0
    /\ results.total_years = 0

\* The positions of the PERSON entities.
Persons == {k \in 1..Len(ents) : ents[k].label = "PERSON"}

\* The entity list without the entities of other labels.
PersonsOnly ==
    LET person(e) == e.label = "PERSON"
    IN SelectSeq(ents, person)

\* C11: extract_name returns the text of a PERSON entity of the greatest
\* length, the first such in entity order when several share it; entities of
\* other labels do not change the result; and the result is the empty string
\* exactly when there is no PERSON entity.
C11_LongestFirstPerson ==
    After("name") =>
        /\ (results.name = "") <=> (Persons = {})
        /\ Persons # {} =>
              \E k \in Persons :
                  /\ results.name = ents[k].text
                  /\ \A j \in Persons : Len(ents[j].text) <= Len(ents[k].text)
                  /\ \A j \in Persons : j < k => Len(ents[j].text) < Len(ents[k].text)
        /\ results.name = extract_name(PersonsOnly)

\* Two PERSON entities of the same, greatest length and different texts: the
\* first one is returned.
C11_Witness ==
    /\ After("name")
    /\ \E j, k \in Persons :
          /\ j < k
          /\ Len(ents[j].text) = Len(ents[k].text)
          /\ ents[j].text # ents[k].text
          /\ results.name = ents[j].text

\* A year as the claim reads it: two digits are expanded with the pivot.
PivotYear(y) ==
    IF Len(y) = 2 THEN (IF ParseInt(y) < 50 THEN 2000 + ParseInt(y) ELSE 1900 + ParseInt(y))
    ELSE ParseInt(y)

\* (endYear - startYear) * 12 + (endMonth - startMonth) of one date range at
\* date clock: Present is the current year and month, an end month without a
\* year is in the current year.
RangeMonths(g, clock) ==
    LET endYear == IF g[3] = "Present" \/ g[4] = "" THEN clock.year ELSE PivotYear(g[4])
        endMonth == IF g[3] = "Present" THEN clock.month ELSE month_to_num(g[3], 12)
    IN (endYear - PivotYear(g[2])) * 12 + (endMonth - month_to_num(g[1], 1))

\* The months of the date ranges of txt with a positive duration, summed.
PositiveMonths(txt, clock) ==
    LET rs == RangesOf(txt)
        months(k) == RangeMonths(rs[k].g, clock)
    IN SumSeq([k \in 1..Len(rs) |-> IF months(k) > 0 THEN months(k) ELSE 0])

\* C12 as stated: when no explicit-phrase pattern matches, the result is the
\* sum over the date ranges of positive duration of
\* (endYear - startYear) + (endMonth - startMonth)/12, in years.
C12_ExactSum ==
    (After("experience") /\ Len(ExplicitOf(text)) = 0)
        => 12 * results.total_years = 100 * PositiveMonths(text, now)

\* C12 (amended): when no explicit-phrase pattern matches, the result is that
\* sum rounded to two decimals: it is a whole number of hundredths of a year
\* and lies within half a hundredth of the sum.
C12_RoundedSum ==
    (After("experience") /\ Len(ExplicitOf(text)) = 0)
        => LET diff == 12 * results.total_years - 100 * PositiveMonths(text, now)
           IN -6 <= diff /\ diff <= 6

\* No explicit phrase, one range of positive duration and one that ends at or
\* before its start: the result is positive and is not the exact sum.
C12_Witness ==
    /\ After("experience")
    /\ Len(ExplicitOf(text)) = 0
    /\ \E j, k \in 1..Len(RangesOf(text)) :
          /\ RangeMonths(RangesOf(text)[j].g, now) > 0
          /\ RangeMonths(RangesOf(text)[k].g, now) <= 0
    /\ results.total_years > 0
    /\ 12 * results.total_years # 100 * PositiveMonths(text, now)

====
